---- MODULE Spec2Model ----
(***************************************************************************)
(* Model of poc-02.py (imapfw sync-02): two drivers (left, rght), one      *)
(* shared state storage and the engine that synchronises them.             *)
(*                                                                         *)
(* Python objects are modelled with a heap: a store maps a uid to the      *)
(* address of a Message object, so that "self.data[uid] = message"         *)
(* (no copy) and "deepcopy(message)" (fresh object) are different things.  *)
(* The address space is split per uid: heap[u][a] is the object at         *)
(* address a of the arena of uid u.                                        *)
(***************************************************************************)
EXTENDS Integers, Sequences, FiniteSets, TLC

\* ---------------------------------------------------------------- bounds
MaxUid == 2          \* uids 1..MaxUid exist
MaxAddr == 5         \* objects per uid: 3 stores + 2 change sets
MaxChanges == 2      \* number of external Driver.fakeChange calls
MaxErrors == 1       \* number of injected write errors
MaxSingleChanges == 5 \* fakeChange calls in SingleMessageSpec
MaxDeletes == 1      \* messages removed from a replica in DeletionSpec

UIDs == 1..MaxUid
Addr == 1..MaxAddr
NULL == 0
Sides == {"left", "rght"}
Flags == {"read", "important"}

Other(side) == IF side = "left" THEN "rght" ELSE "left"

\* ------------------------------------------------------ the Message class
\* A ledger entry is None (no change) or holds one boolean.
None == {}
Some(v) == {v}

DEFAULT_CHANGES == [f \in Flags |-> None]

NoMsg == [absent |-> TRUE]

\* Message.__init__ binds self.changes and self.stateChanges to the SAME
\* dict, and deepcopy keeps that sharing: in every stored message the two
\* names denote one dict, the field "ledger".
Message(flags) == [flags |-> flags, unkown |-> FALSE, ledger |-> DEFAULT_CHANGES]

changes(m) == m.ledger
stateChanges(m) == m.ledger
SetChanges(m, f, v) == [m EXCEPT !.ledger[f] = v]
SetStateChanges(m, f, v) == [m EXCEPT !.ledger[f] = v]

\* Message.setDeleted adds the key 'deleted' to the flags dict.
Deleted(flags) ==
    [f \in Flags \cup {"deleted"} |-> IF f = "deleted" THEN TRUE ELSE flags[f]]
setDeleted(m) == [m EXCEPT !.flags = Deleted(m.flags)]

FlagDicts == [Flags -> BOOLEAN] \cup {Deleted(fl) : fl \in [Flags -> BOOLEAN]}

MsgValues == [flags : FlagDicts, unkown : BOOLEAN,
              ledger : [Flags -> {None, Some(TRUE), Some(FALSE)}]]

\* fakeDriverWrites: the flags of storageMessage after the call.
fakeDriverWrites(self, storageMessage) ==
    IF self.unkown = FALSE
    THEN [storageMessage EXCEPT !.flags =
            [f \in DOMAIN storageMessage.flags |->
               IF f \in Flags /\ changes(self)[f] # None
               THEN CHOOSE v \in changes(self)[f] : TRUE
               ELSE storageMessage.flags[f]]]
    ELSE storageMessage

\* fakeStateWrites: first the changes, then the stateChanges.
fakeStateWrites(self, storageMessage) ==
    IF self.unkown = FALSE
    THEN [storageMessage EXCEPT !.flags =
            [f \in DOMAIN storageMessage.flags |->
               IF f \in Flags /\ stateChanges(self)[f] # None
               THEN CHOOSE v \in stateChanges(self)[f] : TRUE
               ELSE IF f \in Flags /\ changes(self)[f] # None
                    THEN CHOOSE v \in changes(self)[f] : TRUE
                    ELSE storageMessage.flags[f]]]
    ELSE storageMessage

identical(self, message) == message.flags = self.flags

\* learnChanges walks the flags of stateMessage in dict order ('deleted',
\* when there, is the last key) and reads self.flags[flag] for each: a
\* key self.flags does not have raises KeyError, once the flags before it
\* are learnt.
learnChanges(self, stateMessage) ==
    [self EXCEPT !.ledger =
        [f \in Flags |-> IF stateMessage.flags[f] # self.flags[f]
                         THEN Some(self.flags[f])
                         ELSE self.ledger[f]]]

learnChangesRaises(self, stateMessage) ==
    ~(DOMAIN stateMessage.flags \subseteq DOMAIN self.flags)

markUnkown(m) == [m EXCEPT !.unkown = TRUE]

\* Message.merge(self, message): the two messages after the call.
RECURSIVE MergeFlags(_, _, _, _)
MergeFlags(self, message, other, todo) ==
    \* other = deepcopy(message.getChanges()) taken before the loop
    IF todo = {} THEN <<self, message>>
    ELSE LET f == CHOOSE x \in todo : TRUE
             current == changes(self)[f]
         IN IF (other[f] # None \/ current # None) /\ other[f] = current
            THEN MergeFlags(
                   SetStateChanges(SetChanges(self, f, None), f, current),
                   SetChanges(message, f, None), other, todo \ {f})
            ELSE MergeFlags(self, message, other, todo \ {f})

MessageMerge(self, message) == MergeFlags(self, message, changes(message), Flags)

\* ------------------------------------------------ UserDict (Messages, Storage)
EmptyDict == [keys |-> <<>>, ref |-> [u \in UIDs |-> NULL]]
Has(d, u) == d.ref[u] # NULL
SetItem(d, u, a) ==
    [keys |-> IF Has(d, u) THEN d.keys ELSE Append(d.keys, u),
     ref |-> [d.ref EXCEPT ![u] = a]]

DelItem(d, u) ==
    [keys |-> SelectSeq(d.keys, LAMBDA k : k # u),
     ref |-> [d.ref EXCEPT ![u] = NULL]]

\* ------------------------------------------------------------------ state
VARIABLES
    heap,                 \* heap[u][a]: the Message object at address a
    driver,               \* driver[side].data
    state,                \* the StateStorage shared by both controllers
    FakeDriverWriteError, \* per driver
    leftMessages,         \* run(): changes found on the left
    rightMessages,        \* run(): changes found on the right
    pc,                   \* position inside Engine.run
    who,                  \* the controller whose update() is running
    idx,                  \* position of the update loop in theirMessages
    nChanges,             \* fakeChange calls so far
    nErrors,              \* write errors injected so far
    nDeletes,             \* messages removed from a replica so far
    \* history of the current or last run()
    sync,                 \* the flags of every store when the previous run() returned
    quiet,                \* no fakeChange since the previous run() returned
    pre,                  \* the stores when this run() was called
    found,                \* the uids of the two change sets of this run()
    computed,             \* the two change sets as getChanges returned them
    prev,                 \* the run() before this one, when nothing happened in between
    escaped,              \* an exception ended the last run()
    log                   \* the Driver.update / StateStorage.update calls of this run()

prog == <<heap, driver, state, FakeDriverWriteError, leftMessages,
          rightMessages, pc, who, idx, nChanges, nErrors, nDeletes>>
hist == <<sync, quiet, pre, found, computed, prev, escaped, log>>
vars == <<prog, hist>>

Absent == [absent |-> TRUE]
NoRun == [none |-> TRUE]
NoSync == [none |-> TRUE]
NoFound == [left |-> <<>>, rght |-> <<>>]
NoComputed == [left |-> [u \in UIDs |-> Absent], rght |-> [u \in UIDs |-> Absent]]
NoPrev == [none |-> TRUE]

\* Lowest free address of the arena of u in heap h.
Alloc(h, u) == CHOOSE a \in Addr : h[u][a] = NoMsg /\ \A b \in 1..(a-1) : h[u][b] # NoMsg

\* Objects no store refers to any more are reclaimed.  Addresses are only
\* names: the objects that stay are renamed so that the one of the left
\* driver is at 1, the one of the right driver at 2 and the one of the
\* state, unless it is one of those two, at 3.
Moved(l, r, s, u) ==
    [left |-> IF Has(l, u) THEN 1 ELSE NULL,
     rght |-> IF Has(r, u) THEN 2 ELSE NULL,
     state |-> IF ~Has(s, u) THEN NULL
               ELSE IF s.ref[u] = l.ref[u] THEN 1
               ELSE IF s.ref[u] = r.ref[u] THEN 2 ELSE 3]

Collect(h, l, r, s) ==
    [heap |-> [u \in UIDs |-> [a \in Addr |->
                 IF a = 1 /\ Has(l, u) THEN h[u][l.ref[u]]
                 ELSE IF a = 2 /\ Has(r, u) THEN h[u][r.ref[u]]
                 ELSE IF a = 3 /\ Moved(l, r, s, u).state = 3 THEN h[u][s.ref[u]]
                 ELSE NoMsg]],
     left |-> [l EXCEPT !.ref = [u \in UIDs |-> Moved(l, r, s, u).left]],
     rght |-> [r EXCEPT !.ref = [u \in UIDs |-> Moved(l, r, s, u).rght]],
     state |-> [s EXCEPT !.ref = [u \in UIDs |-> Moved(l, r, s, u).state]]]

\* What a store holds: per uid the message, or Absent.
Content(h, d) == [u \in UIDs |-> IF Has(d, u) THEN h[u][d.ref[u]] ELSE Absent]
FlagsOf(h, d) == [u \in UIDs |-> IF Has(d, u) THEN h[u][d.ref[u]].flags ELSE Absent]

\* Everything the next run() depends on.
View(h, drv, st, err) ==
    [left |-> Content(h, drv["left"]), rght |-> Content(h, drv["rght"]),
     state |-> Content(h, st),
     keys |-> [s \in Sides |-> drv[s].keys],
     shared |-> [s \in Sides |-> {u \in UIDs : Has(st, u) /\ st.ref[u] = drv[s].ref[u]}],
     err |-> err]

FlagsView(h, drv, st) ==
    [left |-> FlagsOf(h, drv["left"]), rght |-> FlagsOf(h, drv["rght"]),
     state |-> FlagsOf(h, st)]

Init ==
    /\ heap = [u \in UIDs |-> [a \in Addr |-> NoMsg]]
    /\ driver = [s \in Sides |-> EmptyDict]
    /\ state = EmptyDict
    /\ FakeDriverWriteError = [s \in Sides |-> FALSE]
    /\ leftMessages = EmptyDict
    /\ rightMessages = EmptyDict
    /\ pc = "idle"
    /\ who = "left"
    /\ idx = 0
    /\ nChanges = 0
    /\ nErrors = 0
    /\ nDeletes = 0
    /\ sync = NoSync
    /\ quiet = TRUE
    /\ pre = NoRun
    /\ found = NoFound
    /\ computed = NoComputed
    /\ prev = NoPrev
    /\ escaped = FALSE
    /\ log = <<>>

\* -------------------------------------------------------- the environment
\* The caller builds a Message, sets its flags and hands it to
\* Driver.fakeChange, which stores a deep copy.
fakeChange(side, u, flags) ==
    /\ pc = "idle"
    /\ LET a == Alloc(heap, u)
           drv == [driver EXCEPT ![side] = SetItem(driver[side], u, a)]
       IN \E c \in {Collect([heap EXCEPT ![u][a] = Message(flags)],
                             drv["left"], drv["rght"], state)} :
             /\ driver' = [left |-> c.left, rght |-> c.rght]
             /\ state' = c.state
             /\ heap' = c.heap
    /\ nChanges' = nChanges + 1
    /\ quiet' = FALSE
    /\ pre' = NoRun /\ found' = NoFound /\ log' = <<>>
    /\ computed' = NoComputed /\ prev' = NoPrev /\ escaped' = FALSE
    /\ UNCHANGED <<FakeDriverWriteError, leftMessages, rightMessages,
                   pc, who, idx, nErrors, nDeletes, sync>>

\* The caller sets driver.FakeDriverWriteError = True.
SetFakeDriverWriteError(side) ==
    /\ pc = "idle"
    /\ nErrors < MaxErrors
    /\ FakeDriverWriteError[side] = FALSE
    /\ FakeDriverWriteError' = [FakeDriverWriteError EXCEPT ![side] = TRUE]
    /\ nErrors' = nErrors + 1
    /\ pre' = NoRun /\ found' = NoFound /\ log' = <<>>
    /\ computed' = NoComputed /\ prev' = NoPrev /\ escaped' = FALSE
    /\ UNCHANGED <<heap, driver, state, leftMessages, rightMessages,
                   pc, who, idx, nChanges, nDeletes, sync, quiet>>

\* The message vanishes from the replica (del driver[uid]; the drivers are
\* UserDicts).  Nothing in the program does this.
delitem(side, u) ==
    /\ pc = "idle"
    /\ nDeletes < MaxDeletes
    /\ Has(driver[side], u)
    /\ LET drv == [driver EXCEPT ![side] = DelItem(driver[side], u)]
       IN \E c \in {Collect(heap, drv["left"], drv["rght"], state)} :
             /\ driver' = [left |-> c.left, rght |-> c.rght]
             /\ state' = c.state
             /\ heap' = c.heap
    /\ nDeletes' = nDeletes + 1
    /\ quiet' = FALSE
    /\ pre' = NoRun /\ found' = NoFound /\ log' = <<>>
    /\ computed' = NoComputed /\ prev' = NoPrev /\ escaped' = FALSE
    /\ UNCHANGED <<FakeDriverWriteError, leftMessages, rightMessages,
                   pc, who, idx, nChanges, nErrors, sync>>

\* ------------------------------------------------------- StateController
\* getChanges on driver data d against state data s in heap h: the uids
\* that enter changedMessages, the heap afterwards, changedMessages.
Changed(h, d, s, u) ==
    /\ Has(d, u)
    /\ (Has(s, u) => ~identical(h[u][d.ref[u]], h[u][s.ref[u]]))

Learned(h, d, s, u) ==
    IF Has(s, u) THEN learnChanges(h[u][d.ref[u]], h[u][s.ref[u]])
                 ELSE markUnkown(h[u][d.ref[u]])

\* The loop of getChanges ends with KeyError at the first uid, in the order
\* of the driver's dict, whose learnChanges raises (0: at none).
Raises(h, d, s, u) ==
    /\ Changed(h, d, s, u) /\ Has(s, u)
    /\ learnChangesRaises(h[u][d.ref[u]], h[u][s.ref[u]])

KeyErrorAt(h, d, s) ==
    LET R == {i \in 1..Len(d.keys) : Raises(h, d, s, d.keys[i])}
    IN IF R = {} THEN 0 ELSE CHOOSE i \in R : \A j \in R : i <= j

Reached(h, d, s, u) ==
    \/ KeyErrorAt(h, d, s) = 0
    \/ \E i \in 1..KeyErrorAt(h, d, s) : d.keys[i] = u

GetChangesHeap(h, d, s) ==
    [u \in UIDs |->
        IF Changed(h, d, s, u) /\ Reached(h, d, s, u)
        THEN LET m == Learned(h, d, s, u)
             IN IF Raises(h, d, s, u)
                THEN [h[u] EXCEPT ![d.ref[u]] = m]
                ELSE [h[u] EXCEPT ![d.ref[u]] = m,
                                  ![Alloc(h, u)] = m]   \* Messages.add: deepcopy
        ELSE h[u]]

GetChangesSet(h, d, s) ==
    [keys |-> SelectSeq(d.keys, LAMBDA u : Changed(h, d, s, u)),
     ref |-> [u \in UIDs |-> IF Changed(h, d, s, u) THEN Alloc(h, u) ELSE NULL]]

\* A merge that also clears the changes of the records only theirMessages
\* holds.
MessagesMerge_all(h, self, their) ==
    [u \in UIDs |->
        IF Has(their, u) /\ Has(self, u)
        THEN LET r == MessageMerge(h[u][self.ref[u]], h[u][their.ref[u]])
             IN [h[u] EXCEPT ![self.ref[u]] = r[1], ![their.ref[u]] = r[2]]
        ELSE IF Has(their, u)
        THEN [h[u] EXCEPT ![their.ref[u]].ledger = DEFAULT_CHANGES]
        ELSE h[u]]

\* Messages.merge(self, theirMessages) on the heap.
MessagesMerge(h, self, their) ==
    [u \in UIDs |->
        IF Has(their, u) /\ Has(self, u)
        THEN LET r == MessageMerge(h[u][self.ref[u]], h[u][their.ref[u]])
             IN [h[u] EXCEPT ![self.ref[u]] = r[1], ![their.ref[u]] = r[2]]
        ELSE h[u]]

\* A Driver.update that applies changes to known uids only.
DriverWrite_noinsert(h, d, u, a) ==
    IF Has(d, u)
    THEN [heap |-> [h EXCEPT ![u][d.ref[u]] = fakeDriverWrites(h[u][a], h[u][d.ref[u]])],
          data |-> d]
    ELSE [heap |-> h, data |-> d]

\* A Driver.update that takes a record marked unkown, for a uid the driver
\* holds, as a deletion.
DriverWrite_delete(h, d, u, a) ==
    IF Has(d, u) /\ h[u][a].unkown
    THEN [heap |-> h, data |-> DelItem(d, u)]
    ELSE IF Has(d, u)
    THEN [heap |-> [h EXCEPT ![u][d.ref[u]] = fakeDriverWrites(h[u][a], h[u][d.ref[u]])],
          data |-> d]
    ELSE [heap |-> h, data |-> SetItem(d, u, a)]

\* Driver.update once the error check is passed: heap and driver data.
DriverWrite(h, d, u, a) ==
    IF Has(d, u)
    THEN [heap |-> [h EXCEPT ![u][d.ref[u]] = fakeDriverWrites(h[u][a], h[u][d.ref[u]])],
          data |-> d]
    ELSE [heap |-> h, data |-> SetItem(d, u, a)]

\* A Driver.update that raises the error once the write is done.
DriverRaise_partial(h, d, u, a) == DriverWrite(h, d, u, a)

\* Driver.update when FakeDriverWriteError is set: raise before any write.
DriverRaise(h, d, u, a) == [heap |-> h, data |-> d]

\* StateStorage.update: heap and state data.
StateWrite(h, s, u, a) ==
    IF Has(s, u)
    THEN [heap |-> [h EXCEPT ![u][s.ref[u]] = fakeStateWrites(h[u][a], h[u][s.ref[u]])],
          data |-> s]
    ELSE [heap |-> h, data |-> SetItem(s, u, a)]

\* The flags a call of update(message) assigns in the store.
Written(message, exists) ==
    IF ~exists THEN Flags
    ELSE IF message.unkown THEN {}
    ELSE {f \in Flags : changes(message)[f] # None}

\* An update() that writes the state whether the driver raised or not.
TryBlock_always(raised) == "stateUpdate"

\* The try block of StateController.update after self.driver.update: the
\* state is updated unless the driver raised.
TryBlock(raised) == IF raised THEN "except" ELSE "stateUpdate"

theirMessages(w) == IF w = "left" THEN rightMessages ELSE leftMessages

\* An update() whose try block encloses the loop: the first error ends it.
Position_abort(w, i, raised) ==
    IF w # "none" /\ i < Len(theirMessages(w).keys) /\ ~raised
    THEN [pc |-> "update", who |-> w, idx |-> i + 1]
    ELSE IF w = "none" /\ Len(rightMessages.keys) > 0
    THEN [pc |-> "update", who |-> "left", idx |-> 1]
    ELSE IF w \in {"none", "left"} /\ Len(leftMessages.keys) > 0
    THEN [pc |-> "update", who |-> "rght", idx |-> 1]
    ELSE [pc |-> "idle", who |-> "left", idx |-> 0]

\* Where Engine.run continues once record i of update() of controller w is
\* done, raised or not (with w = "none": once the merge is done).
Position(w, i, raised) ==
    IF w # "none" /\ i < Len(theirMessages(w).keys)
    THEN [pc |-> "update", who |-> w, idx |-> i + 1]
    ELSE IF w = "none" /\ Len(rightMessages.keys) > 0
    THEN [pc |-> "update", who |-> "left", idx |-> 1]
    ELSE IF w \in {"none", "left"} /\ Len(leftMessages.keys) > 0
    THEN [pc |-> "update", who |-> "rght", idx |-> 1]
    ELSE [pc |-> "idle", who |-> "left", idx |-> 0]

\* Continue at position p with heap h, drivers drv and state st; when
\* run() returns its two change sets are dropped.
Continue(p, h, drv, st) ==
    /\ pc' = p.pc
    /\ who' = p.who
    /\ idx' = p.idx
    /\ IF p.pc = "idle"
       THEN /\ leftMessages' = EmptyDict
            /\ rightMessages' = EmptyDict
            /\ \E c \in {Collect(h, drv["left"], drv["rght"], st)} :
                  /\ heap' = c.heap
                  /\ driver' = [left |-> c.left, rght |-> c.rght]
                  /\ state' = c.state
            /\ sync' = [flags |-> FlagsView(h, drv, st),
                        clean |-> \A s \in Sides : ~pre.view.err[s]]
            /\ quiet' = TRUE
       ELSE /\ UNCHANGED <<leftMessages, rightMessages, sync, quiet>>
            /\ heap' = h
            /\ driver' = drv
            /\ state' = st

\* ------------------------------------------------------------ Engine.run
\* An exception leaves run(): its change sets are dropped.
Escape(h) ==
    /\ pc' = "idle"
    /\ leftMessages' = EmptyDict
    /\ rightMessages' = EmptyDict
    /\ \E c \in {Collect(h, driver["left"], driver["rght"], state)} :
          /\ heap' = c.heap
          /\ driver' = [left |-> c.left, rght |-> c.rght]
          /\ state' = c.state
    /\ found' = NoFound
    /\ computed' = NoComputed
    /\ escaped' = TRUE
    /\ sync' = NoSync
    /\ quiet' = TRUE

GetChangesLeft ==
    /\ pc = "idle"
    /\ pre' = [view |-> View(heap, driver, state, FakeDriverWriteError),
               sync |-> sync, quiet |-> quiet]
    /\ prev' = IF pre = NoRun \/ escaped THEN NoPrev
               ELSE [computed |-> computed,
                     failed |-> {<<log[i].side, log[i].uid>> :
                                   i \in {j \in 1..Len(log) : ~log[j].ok}}]
    /\ log' = <<>>
    /\ IF KeyErrorAt(heap, driver["left"], state) = 0
       THEN /\ leftMessages' = GetChangesSet(heap, driver["left"], state)
            /\ heap' = GetChangesHeap(heap, driver["left"], state)
            /\ pc' = "getRight"
            /\ found' = NoFound
            /\ computed' = NoComputed
            /\ escaped' = FALSE
            /\ UNCHANGED <<driver, state, rightMessages, sync, quiet>>
       ELSE Escape(GetChangesHeap(heap, driver["left"], state))
    /\ UNCHANGED <<FakeDriverWriteError, who, idx, nChanges, nErrors, nDeletes>>

GetChangesRight ==
    /\ pc = "getRight"
    /\ IF KeyErrorAt(heap, driver["rght"], state) = 0
       THEN /\ rightMessages' = GetChangesSet(heap, driver["rght"], state)
            /\ heap' = GetChangesHeap(heap, driver["rght"], state)
            /\ pc' = "merge"
            /\ found' = [left |-> leftMessages.keys, rght |-> rightMessages'.keys]
            /\ computed' = [left |-> Content(heap', leftMessages),
                            rght |-> Content(heap', rightMessages')]
            /\ UNCHANGED <<driver, state, leftMessages, sync, quiet, escaped>>
       ELSE Escape(GetChangesHeap(heap, driver["rght"], state))
    /\ UNCHANGED <<FakeDriverWriteError, who, idx, nChanges, nErrors,
                   nDeletes, pre, prev, log>>

Merge ==
    /\ pc = "merge"
    /\ Continue(Position("none", 0, FALSE),
                MessagesMerge(heap, leftMessages, rightMessages), driver, state)
    /\ UNCHANGED <<FakeDriverWriteError, nChanges, nErrors, nDeletes, pre,
                   found, computed, prev, escaped, log>>

\* One pass of the loop of StateController.update up to and including
\* self.driver.update(theirMessage).
DriverUpdate ==
    /\ pc = "update"
    /\ LET u == theirMessages(who).keys[idx]
           a == theirMessages(who).ref[u]
           raised == FakeDriverWriteError[who]
           r == IF raised THEN DriverRaise(heap, driver[who], u, a)
                          ELSE DriverWrite(heap, driver[who], u, a)
           drv == [driver EXCEPT ![who] = r.data]
       IN /\ FakeDriverWriteError' = [FakeDriverWriteError EXCEPT ![who] = FALSE]
          /\ log' = Append(log, [op |-> "driver", side |-> who, uid |-> u,
                                 ok |-> ~raised,
                                 wrote |-> IF raised THEN {}
                                           ELSE Written(heap[u][a], Has(driver[who], u))])
          /\ IF TryBlock(raised) = "stateUpdate"
             THEN /\ pc' = "stateUpdate"
                  /\ heap' = r.heap
                  /\ driver' = drv
                  /\ UNCHANGED <<who, idx, state, leftMessages, rightMessages,
                                 sync, quiet>>
             ELSE Continue(Position(who, idx, raised), r.heap, drv, state)
    /\ UNCHANGED <<nChanges, nErrors, nDeletes, pre, found, computed, prev,
                   escaped>>

\* self.state.update(theirMessage), reached when driver.update returned.
StateUpdate ==
    /\ pc = "stateUpdate"
    /\ LET u == theirMessages(who).keys[idx]
           a == theirMessages(who).ref[u]
           r == StateWrite(heap, state, u, a)
       IN /\ log' = Append(log, [op |-> "state", side |-> who, uid |-> u,
                                 ok |-> TRUE,
                                 wrote |-> Written(heap[u][a], Has(state, u))])
          /\ Continue(Position(who, idx, FALSE), r.heap, driver, r.data)
    /\ UNCHANGED <<FakeDriverWriteError, nChanges, nErrors, nDeletes, pre,
                   found, computed, prev, escaped>>

Run ==
    \/ GetChangesLeft
    \/ GetChangesRight
    \/ Merge
    \/ DriverUpdate
    \/ StateUpdate

\* The caller numbers its messages 1, 2, ... as it creates them.
Known(u) == \E s \in Sides : Has(driver[s], u)

Next ==
    \/ \E side \in Sides, u \in UIDs, flags \in [Flags -> BOOLEAN] :
          /\ nChanges < MaxChanges
          /\ \A v \in 1..(u-1) : Known(v)
          /\ fakeChange(side, u, flags)
    \/ \E side \in Sides : SetFakeDriverWriteError(side)
    \/ Run

Spec == Init /\ [][Next]_vars

\* The same program when the caller works on one message only, followed
\* over more changes.
SingleMessageNext ==
    \/ \E side \in Sides, flags \in [Flags -> BOOLEAN] :
          nChanges < MaxSingleChanges /\ fakeChange(side, 1, flags)
    \/ \E side \in Sides : SetFakeDriverWriteError(side)
    \/ Run

SingleMessageSpec == Init /\ [][SingleMessageNext]_vars

\* The same program when the caller may call setDeleted on the message it
\* hands to fakeChange.
SetDeletedNext ==
    \/ \E side \in Sides, u \in UIDs, flags \in FlagDicts :
          /\ nChanges < MaxChanges
          /\ \A v \in 1..(u-1) : Known(v)
          /\ fakeChange(side, u, flags)
    \/ \E side \in Sides : SetFakeDriverWriteError(side)
    \/ Run

SetDeletedSpec == Init /\ [][SetDeletedNext]_vars

\* The same program when the message may also vanish from a replica, for
\* a caller that works on one message.
DeletionNext ==
    \/ \E side \in Sides, flags \in [Flags -> BOOLEAN] :
          nChanges < MaxChanges /\ fakeChange(side, 1, flags)
    \/ \E side \in Sides : SetFakeDriverWriteError(side)
    \/ \E side \in Sides : delitem(side, 1)
    \/ Run

DeletionSpec == Init /\ [][DeletionNext]_vars

TypeOK ==
    /\ \A u \in UIDs, a \in Addr : heap[u][a] = NoMsg \/ heap[u][a] \in MsgValues
    /\ \A u \in UIDs : Has(driver["left"], u) => driver["left"].ref[u] # driver["rght"].ref[u]
    /\ \A u \in UIDs, s \in Sides : Has(driver[s], u) => heap[u][driver[s].ref[u]] # NoMsg
    /\ \A u \in UIDs : Has(state, u) => heap[u][state.ref[u]] # NoMsg
    /\ pc \in {"idle", "getRight", "merge", "update", "stateUpdate"}

\* ================================================================ claims
\* A run() has just returned normally and nothing happened since.
AfterRun == pc = "idle" /\ pre # NoRun /\ ~escaped

\* No driver had FakeDriverWriteError set when the run() was called.
NoError == \A s \in Sides : ~pre.view.err[s]

\* No write error was injected at all so far.
NeverError == nErrors = 0

Stores == {"left", "rght", "state"}
NowFlags == FlagsView(heap, driver, state)
NowView == View(heap, driver, state, FakeDriverWriteError)
PreFlags(st, u) ==
    IF pre.view[st][u] = Absent THEN Absent ELSE pre.view[st][u].flags

\* The three stores hold uid u with the same value of flag f.
Agree(u, f) ==
    /\ \A st \in Stores : NowFlags[st][u] # Absent
    /\ NowFlags["left"][u][f] = NowFlags["state"][u][f]
    /\ NowFlags["rght"][u][f] = NowFlags["state"][u][f]

Converged ==
    \A u \in UIDs :
        \/ \A st \in Stores : NowFlags[st][u] = Absent
        \/ \A f \in Flags : Agree(u, f)

\* The flags in which the replica s differed, when run() was called, from
\* what it held when the previous run() returned.
ChangedSince(s, u) ==
    IF PreFlags(s, u) = Absent \/ pre.sync.flags[s][u] = Absent THEN {}
    ELSE {f \in Flags : PreFlags(s, u)[f] # pre.sync.flags[s][u][f]}

\* C1 (in the form a finite run refutes): run() is deterministic, so a
\* run() called without pending write error that leaves every store
\* exactly as it found it repeats for ever; convergence over rounds then
\* requires that the stores agree already and that both change sets were
\* empty.
C1_ConvergenceOverRounds ==
    (AfterRun /\ NoError /\ NowView = pre.view)
        => (Converged /\ found = NoFound)

\* C2: when, since the previous run() returned, exactly one flag f of one
\* record u was changed on exactly one replica s, and no write error is
\* pending, then after run() the three stores hold the same value of f
\* for u.
SingleChange(s, u, f) ==
    /\ pre.sync # NoSync
    /\ ChangedSince(s, u) = {f}
    /\ \A s2 \in Sides, u2 \in UIDs :
          <<s2, u2>> # <<s, u>> => PreFlags(s2, u2) = pre.sync.flags[s2][u2]

C2_SingleSideChange ==
    (AfterRun /\ NeverError) =>
        \A s \in Sides, u \in UIDs, f \in Flags :
            SingleChange(s, u, f) => Agree(u, f)

\* C3: a run() called right after a run(), with no fakeChange in between
\* and no write error in either, finds no change on either side and
\* changes no flag of any store.
C3_Idempotence ==
    (AfterRun /\ NeverError /\ pre.sync # NoSync /\ pre.quiet)
        => /\ found = NoFound
           /\ \A st \in Stores, u \in UIDs : NowFlags[st][u] = PreFlags(st, u)

\* C4 as stated: every record that a replica s holds and the shared state
\* does not is, after a run() without write error, in the other replica
\* and in the shared state with the flags s held.
Propagated(s, u) ==
    /\ NowFlags[Other(s)][u] = PreFlags(s, u)
    /\ NowFlags["state"][u] = PreFlags(s, u)

C4_NewRecordAnyReplica ==
    (AfterRun /\ NoError) =>
        \A s \in Sides, u \in UIDs :
            (PreFlags(s, u) # Absent /\ PreFlags("state", u) = Absent)
                => Propagated(s, u)

\* C4 amended: every record that exactly one replica s holds, the other
\* replica and the shared state holding none, is after a run() without
\* write error in the other replica and in the shared state with the
\* flags s held.
NewOn(s, u) ==
    /\ PreFlags(s, u) # Absent
    /\ PreFlags(Other(s), u) = Absent
    /\ PreFlags("state", u) = Absent

C4_NewRecordPropagation ==
    (AfterRun /\ NoError) =>
        \A s \in Sides, u \in UIDs : NewOn(s, u) => Propagated(s, u)

C4_Witness ==
    /\ AfterRun /\ NoError
    /\ \E s \in Sides, u \in UIDs :
          /\ NewOn(s, u) /\ Propagated(s, u)
          /\ \E f \in Flags : PreFlags(s, u)[f]

\* C5: when, since the previous run() returned, the left replica changed
\* flag f and the right replica changed another flag g of the same uid,
\* then after a run() without write error the three stores hold the
\* left's value of f and the right's value of g.
Concurrent(u, f, g) ==
    /\ pre.sync # NoSync
    /\ f # g
    /\ ChangedSince("left", u) = {f}
    /\ ChangedSince("rght", u) = {g}

Merged(u, f, g) ==
    \A st \in Stores :
        /\ NowFlags[st][u] # Absent
        /\ NowFlags[st][u][f] = PreFlags("left", u)[f]
        /\ NowFlags[st][u][g] = PreFlags("rght", u)[g]

C5_ConcurrentChangesMerge ==
    (AfterRun /\ NeverError) =>
        \A u \in UIDs, f \in Flags, g \in Flags :
            Concurrent(u, f, g) => Merged(u, f, g)

\* C6: when both change sets hold uid u with the same change v of flag f,
\* Messages.merge leaves changes[f] None in both records and v only in
\* stateChanges[f] of the record merge was invoked on (the left one).
LeftChange(u) == heap[u][leftMessages.ref[u]]
RightChange(u) == heap[u][rightMessages.ref[u]]

SameChange(u, f) ==
    /\ Has(leftMessages, u) /\ Has(rightMessages, u)
    /\ changes(LeftChange(u))[f] # None
    /\ changes(LeftChange(u))[f] = changes(RightChange(u))[f]

C6_MergeDedup ==
    [][pc = "merge" =>
         \A u \in UIDs, f \in Flags :
             SameChange(u, f) =>
                 /\ changes(heap'[u][leftMessages.ref[u]])[f] = None
                 /\ changes(heap'[u][rightMessages.ref[u]])[f] = None
                 /\ stateChanges(heap'[u][leftMessages.ref[u]])[f]
                        = changes(LeftChange(u))[f]
                 /\ stateChanges(heap'[u][rightMessages.ref[u]])[f] = None]_vars

\* C7: when, since the previous run() returned, both replicas changed flag
\* f of uid u to the same value, no Driver.update of this run() assigns f
\* in a replica, and when run() returns the shared state holds the value.
BothChanged(u, f) ==
    /\ pre.sync # NoSync
    /\ PreFlags("state", u) # Absent
    /\ f \in ChangedSince("left", u) \cap ChangedSince("rght", u)
    /\ PreFlags("left", u)[f] = PreFlags("rght", u)[f]

C7_NoRedundantWrite ==
    (pre # NoRun /\ NeverError) =>
        \A u \in UIDs, f \in Flags :
            BothChanged(u, f) =>
                /\ \A i \in 1..Len(log) :
                      (log[i].op = "driver" /\ log[i].uid = u) => f \notin log[i].wrote
                /\ pc = "idle" => NowFlags["state"][u][f] = PreFlags("left", u)[f]

\* C8: every StateStorage.update follows at once a Driver.update of the
\* same record by the same controller that returned without error, and a
\* Driver.update that raises leaves the shared state as it is and is not
\* followed by the state update of its record.
StateAfterDriver ==
    \A i \in 1..Len(log) :
        log[i].op = "state" =>
            /\ i > 1
            /\ log[i-1].op = "driver" /\ log[i-1].ok
            /\ log[i-1].side = log[i].side /\ log[i-1].uid = log[i].uid

Raising == pc = "update" /\ FakeDriverWriteError[who]

C8_StateAfterDriverSuccess ==
    /\ []StateAfterDriver
    /\ [][Raising => /\ Content(heap', state') = Content(heap, state)
                     /\ pc' # "stateUpdate"]_vars

C8_Witness ==
    \E i \in 1..Len(log), j \in 1..Len(log) :
        /\ log[i].op = "driver" /\ ~log[i].ok
        /\ log[j].op = "state" /\ j > i

\* C9: a Driver.update that raises leaves the entry of the record in its
\* replica (presence, flags, everything) as it was.
C9_FailedWriteAppliesNothing ==
    [][Raising =>
         LET u == theirMessages(who).keys[idx]
         IN Content(heap', driver'[who])[u] = Content(heap, driver[who])[u]]_vars

C9_Witness ==
    \E i \in 1..Len(log) :
        /\ log[i].op = "driver" /\ ~log[i].ok
        /\ PreFlags(log[i].side, log[i].uid) # Absent
        /\ NowFlags[log[i].side][log[i].uid] = PreFlags(log[i].side, log[i].uid)
        /\ PreFlags(Other(log[i].side), log[i].uid) # Absent
        /\ PreFlags(Other(log[i].side), log[i].uid) # PreFlags(log[i].side, log[i].uid)

\* C10: when a Driver.update of a run() raised, every record of both
\* change sets was still passed to Driver.update, in order, and each one
\* written without error was passed to StateStorage.update next.
DriverCalls(w) ==
    LET ev == SelectSeq(log, LAMBDA e : e.op = "driver" /\ e.side = w)
    IN [i \in 1..Len(ev) |-> ev[i].uid]

SomeRaised == \E i \in 1..Len(log) : log[i].op = "driver" /\ ~log[i].ok

C10_FailureDoesNotAbort ==
    (AfterRun /\ SomeRaised) =>
        /\ DriverCalls("left") = found["rght"]
        /\ DriverCalls("rght") = found["left"]
        /\ \A i \in 1..Len(log) :
              (log[i].op = "driver" /\ log[i].ok) =>
                  /\ i < Len(log)
                  /\ log[i+1].op = "state"
                  /\ log[i+1].side = log[i].side /\ log[i+1].uid = log[i].uid

C10_Witness ==
    /\ AfterRun
    /\ \E i \in 1..Len(log), j \in 1..Len(log) :
          /\ log[i].op = "driver" /\ ~log[i].ok
          /\ j > i /\ log[j].op = "driver" /\ log[j].ok
          /\ j < Len(log) /\ log[j+1].op = "state"

\* C11: when a run() follows at once a run() in which the Driver.update
\* of record u on replica w raised, and no write error is pending, it
\* computes for u the change-set entry of the other side that the failed
\* round computed, and when it returns the three stores agree on u.
Retried(w, u) ==
    /\ computed[Other(w)][u] # Absent
    /\ computed[Other(w)][u].unkown = prev.computed[Other(w)][u].unkown
    /\ changes(computed[Other(w)][u]) = changes(prev.computed[Other(w)][u])
    /\ \A f \in Flags : Agree(u, f)

C11_RetryByReconvergence ==
    (AfterRun /\ NoError /\ prev # NoPrev) =>
        \A w \in Sides, u \in UIDs : <<w, u>> \in prev.failed => Retried(w, u)

\* C12: no exception leaves Engine.run(), whatever the replicas and the
\* shared state hold and whatever write error is injected.
C12_NoExceptionEscapes == ~escaped

\* C13: when both change sets hold uid u with different changes (neither
\* None) of the same flag f, Messages.merge leaves changes[f] of both
\* records as getChanges computed it, and after a run() without write
\* error each replica holds for f the value the other side's record
\* carried.
Val(c) == CHOOSE v \in c : TRUE

Conflict(l, r, f) ==
    /\ l # Absent /\ r # Absent
    /\ changes(l)[f] # None /\ changes(r)[f] # None
    /\ changes(l)[f] # changes(r)[f]

Swapped(u, f) ==
    /\ NowFlags["left"][u][f] = Val(changes(computed["rght"][u])[f])
    /\ NowFlags["rght"][u][f] = Val(changes(computed["left"][u])[f])

C13_ConflictPassthrough ==
    /\ [][pc = "merge" =>
            \A u \in UIDs, f \in Flags :
                Conflict(computed["left"][u], computed["rght"][u], f) =>
                    /\ changes(heap'[u][leftMessages.ref[u]])[f]
                           = changes(computed["left"][u])[f]
                    /\ changes(heap'[u][rightMessages.ref[u]])[f]
                           = changes(computed["rght"][u])[f]]_vars
    /\ []((AfterRun /\ NoError) =>
            \A u \in UIDs, f \in Flags :
                Conflict(computed["left"][u], computed["rght"][u], f) => Swapped(u, f))

\* C14: every record of the change set getChanges has just returned is
\* marked unkown exactly when the shared state does not hold its uid.
\* (The state is as it was at the call until the merge is done.)
MarkFollowsState(returned) ==
    \A u \in UIDs :
        Has(returned, u) => (heap[u][returned.ref[u]].unkown <=> ~Has(state, u))

C14_NewMarkFollowsState ==
    /\ pc = "getRight" => MarkFollowsState(leftMessages)
    /\ pc = "merge" => MarkFollowsState(rightMessages)

\* C15: when run() returns, every record of the change set of side s that
\* Driver.update wrote without error to the other replica and
\* StateStorage.update wrote to the shared state has, in the replica s,
\* changes and stateChanges all None.
Applied(s, u) ==
    /\ computed[s][u] # Absent
    /\ \E i \in 1..Len(log) :
          /\ log[i].op = "driver" /\ log[i].side = Other(s)
          /\ log[i].uid = u /\ log[i].ok
    /\ \E i \in 1..Len(log) :
          log[i].op = "state" /\ log[i].side = Other(s) /\ log[i].uid = u

C15_LedgerReset ==
    AfterRun =>
        \A s \in Sides, u \in UIDs :
            Applied(s, u) =>
                /\ changes(Content(heap, driver[s])[u]) = DEFAULT_CHANGES
                /\ stateChanges(Content(heap, driver[s])[u]) = DEFAULT_CHANGES

\* C16: in every state no two of the left replica, the right replica and
\* the shared state hold the same Message object for a uid.
StoreData(st) == IF st = "state" THEN state ELSE driver[st]

C16_StoreIsolation ==
    \A u \in UIDs, s1 \in Stores, s2 \in Stores :
        (s1 # s2 /\ Has(StoreData(s1), u)) => StoreData(s1).ref[u] # StoreData(s2).ref[u]

\* C17: the change set getChanges has just returned for a side holds uid
\* u exactly when the replica holds u and the shared state either does
\* not or holds it with other flags; for a uid the state holds, changes[f]
\* is the replica's value of f where it differs from the state's and None
\* where it does not.
Differs(side, u) ==
    /\ Has(driver[side], u)
    /\ Has(state, u) => FlagsOf(heap, driver[side])[u] # FlagsOf(heap, state)[u]

ExactDiff(side, returned) ==
    \A u \in UIDs :
        /\ Has(returned, u) <=> Differs(side, u)
        /\ (Has(returned, u) /\ Has(state, u)) =>
              \A f \in Flags :
                  changes(heap[u][returned.ref[u]])[f] =
                      IF FlagsOf(heap, driver[side])[u][f] # FlagsOf(heap, state)[u][f]
                      THEN Some(FlagsOf(heap, driver[side])[u][f])
                      ELSE None

C17_ChangeSetIsDiff ==
    /\ pc = "getRight" => ExactDiff("left", leftMessages)
    /\ pc = "merge" => ExactDiff("rght", rightMessages)

\* C18: Messages.merge leaves every record whose uid only one of the two
\* change sets holds as it is (changes, stateChanges, flags, unkown), and
\* both change sets keep their uids.
OneSidedEntry(u) == Has(leftMessages, u) # Has(rightMessages, u)

EntryOf(h, u) ==
    IF Has(leftMessages, u) THEN h[u][leftMessages.ref[u]]
                            ELSE h[u][rightMessages.ref[u]]

C18_MergeFrame ==
    [][pc = "merge" =>
         /\ \A u \in UIDs : OneSidedEntry(u) => EntryOf(heap', u) = EntryOf(heap, u)
         /\ pc' # "idle" => /\ leftMessages' = leftMessages
                            /\ rightMessages' = rightMessages
         /\ pc' = "idle" => /\ leftMessages.keys = <<>>
                            /\ rightMessages.keys = <<>>]_vars

\* The merge is done and one change set alone holds a record that carries
\* a change.
C18_Witness ==
    /\ pc = "update" /\ log = <<>>
    /\ \E u \in UIDs, f \in Flags :
          OneSidedEntry(u) /\ changes(EntryOf(heap, u))[f] # None

\* C19: a uid the shared state holds and a replica does not is never in
\* the change set getChanges returns for that replica, and every uid a
\* store held when run() was called is still in that store during and
\* after the run().
NotSurfaced(side, returned) ==
    \A u \in UIDs : (Has(state, u) /\ ~Has(driver[side], u)) => ~Has(returned, u)

C19_NoDeletion ==
    /\ pc = "getRight" => NotSurfaced("left", leftMessages)
    /\ pc = "merge" => NotSurfaced("rght", rightMessages)
    /\ pre # NoRun =>
          \A st \in Stores, u \in UIDs :
              PreFlags(st, u) # Absent => Has(StoreData(st), u)

\* A run() has returned that was called with a uid the state held and a
\* replica had lost: the state still holds it, the replica still does not,
\* the other replica keeps it.
C19_Witness ==
    /\ AfterRun
    /\ \E s \in Sides, u \in UIDs :
          /\ PreFlags("state", u) # Absent /\ PreFlags(s, u) = Absent
          /\ Has(state, u) /\ ~Has(driver[s], u) /\ Has(driver[Other(s)], u)

\* C20: a freshly constructed Message has changes and stateChanges all
\* None, and changes and stateChanges of a Message are written apart: when
\* Message.merge finds the same change of flag f in both records, it sets
\* changes[f] to None (line 139) and then writes stateChanges[f] (line
\* 141), and that write leaves changes[f] None in the record merged into,
\* from the merge until run() drops its change sets.
Deduplicated(u, f) ==
    /\ computed["left"][u] # Absent /\ computed["rght"][u] # Absent
    /\ changes(computed["left"][u])[f] # None
    /\ changes(computed["left"][u])[f] = changes(computed["rght"][u])[f]

C20_PrivateLedger ==
    /\ \A fl \in FlagDicts :
          /\ changes(Message(fl)) = [f \in Flags |-> None]
          /\ stateChanges(Message(fl)) = [f \in Flags |-> None]
    /\ pc \in {"update", "stateUpdate"} =>
          \A u \in UIDs, f \in Flags :
              Deduplicated(u, f) =>
                  /\ stateChanges(LeftChange(u))[f] = changes(computed["left"][u])[f]
                  /\ changes(LeftChange(u))[f] = None

====
